---------------------------- MODULE Spec2Model ----------------------------
(***************************************************************************)
(* A model of the Player orchestrator of nodeplayer (src/src/player.js):   *)
(* the hook dispatcher, the initialization pipeline, the volume control,   *)
(* the search / playlist aggregator, the playback state machine and the    *)
(* song preparation pipeline with its watchdog.                            *)
(*                                                                         *)
(* JavaScript values are modelled by strings: Null and Undefined are two   *)
(* different values, both falsy.  A JavaScript object whose key order      *)
(* matters (player.plugins, player.backends) is a sequence of records in   *)
(* key insertion order.                                                    *)
(***************************************************************************)
EXTENDS Integers, Sequences, FiniteSets, TLC

VARIABLES
  plugins,      \* player.plugins: sequence of plugin descriptors, in registration order
  backends,     \* player.backends: sequence of backend descriptors, in registration order
  volume,       \* player.volume, in tenths (10 is 1.0)
  hookLog,      \* the callHooks calls made by the last operation, in order
  lastOp,       \* the last operation called from outside, with its arguments and outcome
  initPc,       \* init(): "idle", the loader whose callback is awaited, or "ready"
  initLog,      \* init(): the loaders started, results merged and hooks fired, in order
  aggCall,      \* the aggregator call under way: "none", "search" or "playlists"
  aggPending,   \* the names of the backends that call asked and that have not reported
  resultCnt,    \* the call's counter resultCnt
  allResults,   \* the call's allResults: the entries set so far
  doneCalls,    \* what the call's completion callback was invoked with, once per invocation
  queue,        \* player.queue.songs: the queued songs, in play order
  nowPlaying,   \* player.nowPlaying: a song, Null or Undefined
  play,         \* player.play
  repeat,       \* player.repeat
  playback,     \* song.playback of every song: startTime and startPos
  prepared,     \* song.isPrepared() of every song
  cancelPrepare,  \* whether the song has its cancelPrepare capability
  prepareTimeout, \* song.prepareTimeout of every song: a timer handle, 0 for none
  timers,       \* the armed watchdog timers: handle and song
  handlers,     \* the progress handlers song.prepare was given and that still await events
  steps,        \* the number of operations and events so far
  deferred,     \* the second tasks of prepareSongs that wait on setImmediate, by currentSong
  seriesDefers, \* whether the installed async.series defers the next task after a synchronous callback
  calls         \* the calls the last operation made, in order

initVars == <<initPc, initLog>>
aggVars == <<aggCall, aggPending, resultCnt, allResults, doneCalls>>
playVars == <<queue, nowPlaying, play, repeat, playback, prepared, cancelPrepare,
              prepareTimeout, timers, handlers, deferred, seriesDefers, steps, calls>>
vars == <<plugins, backends, volume, hookLog, lastOp, initVars, aggVars, playVars>>

-----------------------------------------------------------------------------
(* Bounds of the model. *)

MaxPlugins == 3
MaxBackends == 3
MaxCapabilityPlugins == 2
MaxQueue == 2
MaxSteps == 5
MaxClock == 2

-----------------------------------------------------------------------------
(* JavaScript values. *)

Null == "null"
Undefined == "undefined"
False == "false"

\* JavaScript truthiness of the values the model uses.
Truthy(v) == v \notin {Null, Undefined, False}

-----------------------------------------------------------------------------
(* Plugin descriptors and the hook dispatcher. *)

\* The hook names player.js fires.
HookNames ==
  {"onBuiltinPluginsInitialized", "onPluginsInitialized",
   "onBuiltinBackendsInitialized", "onBackendsInitialized", "onReady",
   "onSongEnd", "onSongPrepareError", "onPrepareProgress", "onSongPrepared",
   "preAddSearchResult", "onVolumeChange"}

\* A plugin descriptor is a record: name, the hooks bundle (hooks) and the hook
\* names the descriptor itself has a function under, next to the bundle (top).
\* What a plugin's hooks bundle holds under a hook name: nothing, or a
\* function, described by what it returns.
NoHandler == "none"
HandlerKinds == {NoHandler, "retUndefined", "retFalse", "retError"}

PluginName(i) == CASE i = 1 -> "p1" [] i = 2 -> "p2" [] i = 3 -> "p3" [] OTHER -> "p4"

\* fun.apply(null, argv) for a handler of the given kind of plugin `name`.
ApplyHandler(kind, name, argv) ==
  CASE kind = "retUndefined" -> Undefined
    [] kind = "retFalse"     -> False
    [] kind = "retError"     -> "error:" \o name
    [] kind = "rejectS1"     -> IF argv[1] = "s1" THEN "error:" \o name ELSE Undefined

\* plugin.hooks[hook] is truthy.
HasHook(plugin, hook) == plugin.hooks[hook] # NoHandler

RECURSIVE CallHooksNoBreak(_, _, _, _, _)
\* A dispatcher that does not stop at a truthy return value (_.each for _.find).
CallHooksNoBreak(plugs, hook, argv, i, acc) ==
  IF i > Len(plugs) THEN acc
  ELSE IF HasHook(plugs[i], hook)
       THEN CallHooksNoBreak(plugs, hook, argv, i + 1,
              [err |-> ApplyHandler(plugs[i].hooks[hook], plugs[i].name, argv),
               invoked |-> Append(acc.invoked, plugs[i].name)])
       ELSE CallHooksNoBreak(plugs, hook, argv, i + 1, acc)

RECURSIVE CallHooksFrom(_, _, _, _, _)
\* _.find(this.plugins, ...) from the i-th plugin on: acc.err is the variable
\* err, acc.invoked the names of the plugins whose handler ran so far.
CallHooksFrom(plugs, hook, argv, i, acc) ==
  IF i > Len(plugs) THEN acc
  ELSE IF HasHook(plugs[i], hook)
       THEN LET err == ApplyHandler(plugs[i].hooks[hook], plugs[i].name, argv)
                acc2 == [err |-> err, invoked |-> Append(acc.invoked, plugs[i].name)]
            IN  IF Truthy(err) THEN acc2
                ELSE CallHooksFrom(plugs, hook, argv, i + 1, acc2)
       ELSE CallHooksFrom(plugs, hook, argv, i + 1, acc)

\* callHooks(hook, argv): the value returned and the handlers invoked.
CallHooks(plugs, hook, argv) ==
  CallHooksFrom(plugs, hook, argv, 1, [err |-> Null, invoked |-> <<>>])

\* The record hookLog keeps of one callHooks call.
HookCall(plugs, hook, argv) ==
  LET r == CallHooks(plugs, hook, argv)
  IN  [hook |-> hook, argv |-> argv, invoked |-> r.invoked, err |-> r.err]

\* plugin[hook] is truthy: the descriptor itself has a property of that name.
HasTop(plugin, hook) == hook \in plugin.top

\* numHooks(hook): _.find's callback returns nothing, so every plugin is visited.
NumHooks(plugs, hook) ==
  Cardinality({i \in 1..Len(plugs) : HasTop(plugs[i], hook)})

-----------------------------------------------------------------------------
(* Volume control. *)

MathMax(a, b) == IF a >= b THEN a ELSE b
MathMin(a, b) == IF a <= b THEN a ELSE b

\* A clamp that forgets the upper limit.
ClampVolumeNoUpper(newVol) == MathMax(0, newVol)

\* Math.min(1, Math.max(0, newVol)), in tenths.
ClampVolume(newVol) == MathMin(10, MathMax(0, newVol))

\* The values setVolume is called with, in tenths: below 0, inside and above 1.
VolumeInputs == {-10, -1, 0, 4, 10, 11, 20}
UserIds == {1, 2}

\* options.volume || 1, in tenths; 0 stands for an absent (or zero) option.
NewVolume(opt) == IF opt = 0 THEN 10 ELSE opt

Op(name, args, threw) == [op |-> name, args |-> args, threw |-> threw]

\* The songs of the model (Song objects) and the uuid of each.
SongName(i) == CASE i = 1 -> "s1" [] i = 2 -> "s2" [] i = 3 -> "s3" [] OTHER -> "s4"
Songs == {SongName(i) : i \in 1..MaxQueue}
Uuid(song) ==
  CASE song = "s1" -> "u1" [] song = "s2" -> "u2" [] song = "s3" -> "u3" [] OTHER -> "u4"

\* song.playback of a song that was not started.
NotStarted == [startTime |-> 0, startPos |-> 0]

\* A player with an empty queue and nothing playing, as the constructor leaves it.
PlayIdle ==
  /\ queue = <<>>
  /\ nowPlaying = Null
  /\ play = FALSE
  /\ repeat = FALSE
  /\ playback = [s \in Songs |-> NotStarted]
  /\ prepared = [s \in Songs |-> FALSE]
  /\ cancelPrepare = [s \in Songs |-> FALSE]
  /\ prepareTimeout = [s \in Songs |-> 0]
  /\ timers = {}
  /\ handlers = [s \in Songs |-> {}]
  /\ deferred = <<>>
  /\ seriesDefers = FALSE
  /\ steps = 0
  /\ calls = <<>>

\* No searchBackends or getPlaylists call was made.
AggIdle ==
  /\ aggCall = "none"
  /\ aggPending = {}
  /\ resultCnt = 0
  /\ allResults = {}
  /\ doneCalls = <<>>

\* setVolume(newVol, userID)
SetVolume(newVol, userID) ==
  LET clamped == ClampVolume(newVol)
  IN  /\ volume' = clamped
      /\ hookLog' = <<HookCall(plugins, "onVolumeChange", <<clamped, userID>>)>>
      /\ lastOp' = Op("setVolume", <<newVol, userID>>, "none")
      /\ UNCHANGED <<plugins, backends, initVars, aggVars, playVars>>

\* callHooks(hook, argv) called from outside the player (by a plugin).
CallHooksOp(hook) ==
  /\ hookLog' = <<HookCall(plugins, hook, <<>>)>>
  /\ lastOp' = Op("callHooks", <<hook>>, "none")
  /\ UNCHANGED <<plugins, backends, volume, initVars, aggVars, playVars>>

-----------------------------------------------------------------------------
(* The hook dispatcher and the volume control on every small plugin map. *)

\* The plugins of this specification: any handler, or none, for onVolumeChange,
\* and a vetoing handler, or none, for preAddSearchResult.
PluginHooks ==
  {[n \in HookNames |->
      CASE n = "onVolumeChange"     -> v
        [] n = "preAddSearchResult" -> p
        [] OTHER                    -> NoHandler] :
     v \in HandlerKinds, p \in {NoHandler, "retError"}}

\* The plugin maps with n plugins: the i-th registered plugin is PluginName(i).
PluginMapsOfLen(n) ==
  {[i \in 1..n |-> [name |-> PluginName(i), hooks |-> f[i], top |-> {}]] :
     f \in [1..n -> PluginHooks]}

PluginMaps == UNION {PluginMapsOfLen(n) : n \in 0..MaxPlugins}

InitHooks ==
  /\ plugins \in PluginMaps
  /\ backends = <<>>
  /\ volume \in {NewVolume(opt) : opt \in {0, 5}}
  /\ hookLog = <<>>
  /\ lastOp = Op("new", <<>>, "none")
  /\ initPc = "idle"
  /\ initLog = <<>>
  /\ AggIdle
  /\ PlayIdle

NextHooks ==
  \/ \E v \in VolumeInputs, u \in UserIds : SetVolume(v, u)
  \/ \E h \in {"onVolumeChange", "preAddSearchResult", "onReady"} : CallHooksOp(h)

SpecHooks == InitHooks /\ [][NextHooks]_vars

\* The plugins that expose `hook`, in registration order.
Exposing(plugs, hook) == SelectSeq(plugs, LAMBDA p : HasHook(p, hook))

\* What the handlers of the exposing plugins return, in registration order.
Returns(plugs, hook, argv) ==
  LET ex == Exposing(plugs, hook)
  IN  [i \in 1..Len(ex) |-> ApplyHandler(ex[i].hooks[hook], ex[i].name, argv)]

\* The position, among the exposing plugins, of the last handler to be invoked:
\* the first one that returns a truthy value, or the last one when none does.
LastInvoked(plugs, hook, argv) ==
  LET rets == Returns(plugs, hook, argv)
      truthy == {i \in 1..Len(rets) : Truthy(rets[i])}
  IN  IF truthy = {} THEN Len(rets)
      ELSE CHOOSE k \in truthy : \A j \in truthy : k <= j

\* The handlers of call c ran in registration order and none ran after the first
\* truthy return value.
InvokedInOrder(c) ==
  LET ex == Exposing(plugins, c.hook)
      k == LastInvoked(plugins, c.hook, c.argv)
  IN  c.invoked = [i \in 1..k |-> ex[i].name]

\* Some handler of call c returned a truthy value.
SomeTruthy(c) ==
  \E i \in 1..Len(Returns(plugins, c.hook, c.argv)) :
    Truthy(Returns(plugins, c.hook, c.argv)[i])

\* C2 as stated: handlers run in registration order up to the first truthy return
\* value, and callHooks returns that value, or null when no handler ran or none
\* returned a truthy value.
C2_AsStated ==
  \A n \in 1..Len(hookLog) :
    LET c == hookLog[n]
        rets == Returns(plugins, c.hook, c.argv)
    IN  /\ InvokedInOrder(c)
        /\ c.err = IF SomeTruthy(c)
                   THEN rets[LastInvoked(plugins, c.hook, c.argv)]
                   ELSE Null

\* C2 as amended: handlers run in registration order up to the first truthy return
\* value, and callHooks returns that value; it returns null when no handler ran,
\* and the (falsy) return value of the last handler when none returned a truthy
\* value.
C2_CallHooksOrder ==
  \A n \in 1..Len(hookLog) :
    LET c == hookLog[n]
        rets == Returns(plugins, c.hook, c.argv)
    IN  /\ InvokedInOrder(c)
        /\ c.err = IF Len(rets) = 0 THEN Null
                   ELSE rets[LastInvoked(plugins, c.hook, c.argv)]
        /\ Truthy(c.err) <=> SomeTruthy(c)

\* A call in which two handlers ran, the second returned a truthy value and a
\* third plugin exposing the hook was not invoked.
C2_Witness ==
  /\ lastOp.op = "callHooks"
  /\ Len(hookLog) = 1
  /\ Len(hookLog[1].invoked) = 2
  /\ Truthy(hookLog[1].err)
  /\ Len(Exposing(plugins, hookLog[1].hook)) = 3

\* C10: setVolume(value, actorId) stores value clamped to [0,1], fires
\* onVolumeChange once, with the clamped value and actorId, and changes nothing
\* else of the player.
C10_SetVolumeClamps ==
  [][lastOp'.op = "setVolume" =>
       LET value == lastOp'.args[1]
           actorId == lastOp'.args[2]
           clamped == IF value < 0 THEN 0 ELSE IF value > 10 THEN 10 ELSE value
       IN  /\ volume' = clamped
           /\ Len(hookLog') = 1
           /\ hookLog'[1].hook = "onVolumeChange"
           /\ hookLog'[1].argv = <<clamped, actorId>>
           /\ UNCHANGED <<plugins, backends, initVars, aggVars, playVars>>]_vars

\* setVolume(2) was called, the stored volume is 1 and a handler ran.
C10_Witness ==
  /\ lastOp.op = "setVolume"
  /\ lastOp.args[1] = 20
  /\ volume = 10
  /\ hookLog[1].invoked # <<>>

-----------------------------------------------------------------------------
(* numHooks and callHooks on plugins with handlers in either place. *)

\* numHooks(hook) called from outside the player (by a plugin).
NumHooksOp(hook) ==
  /\ lastOp' = Op("numHooks", <<hook, NumHooks(plugins, hook)>>, "none")
  /\ hookLog' = <<>>
  /\ UNCHANGED <<plugins, backends, volume, initVars, aggVars, playVars>>

\* The hooks asked about.
CountedHooks == {"onSongEnd", "onReady"}

\* A plugin with handlers of onSongEnd and onReady in its hooks bundle (bundle)
\* and on the descriptor itself (top).
CapabilityPlugin(name, bundle, top) ==
  [name |-> name,
   hooks |-> [n \in HookNames |-> IF n \in bundle THEN "retUndefined" ELSE NoHandler],
   top |-> top]

CapabilityMapsOfLen(n) ==
  {[i \in 1..n |-> CapabilityPlugin(PluginName(i), b[i], t[i])] :
     b \in [1..n -> SUBSET CountedHooks], t \in [1..n -> {{}, {"onSongEnd"}}]}

InitNumHooks ==
  /\ plugins \in UNION {CapabilityMapsOfLen(n) : n \in 0..MaxCapabilityPlugins}
  /\ backends = <<>>
  /\ volume = NewVolume(0)
  /\ hookLog = <<>>
  /\ lastOp = Op("new", <<>>, "none")
  /\ initPc = "idle"
  /\ initLog = <<>>
  /\ AggIdle
  /\ PlayIdle

NextNumHooks ==
  \/ \E h \in CountedHooks : NumHooksOp(h)
  \/ \E h \in CountedHooks : CallHooksOp(h)

SpecNumHooks == InitNumHooks /\ [][NextNumHooks]_vars

\* C11: numHooks(name) is the number of registered plugins exposing the
\* capability name, which is the number of plugins whose handler
\* callHooks(name) would consider.
C11_NumHooks ==
  lastOp.op = "numHooks" =>
    lastOp.args[2] = Len(Exposing(plugins, lastOp.args[1]))

-----------------------------------------------------------------------------
(* The initialization pipeline. *)

\* The four tasks of init()'s async.series, by the loader each one calls, and
\* the hook each one fires.
Loaders == <<"loadBuiltinPlugins", "loadPlugins", "loadBuiltinBackends", "loadBackends">>
StageHooks == <<"onBuiltinPluginsInitialized", "onPluginsInitialized",
                "onBuiltinBackendsInitialized", "onBackendsInitialized">>

Event(kind, what) == [ev |-> kind, what |-> what]

\* The position of the entry called `name` in a sequence of descriptors, 0 if none.
IndexOfName(seq, name) ==
  IF \E i \in 1..Len(seq) : seq[i].name = name
  THEN CHOOSE i \in 1..Len(seq) : seq[i].name = name
  ELSE 0

RECURSIVE Extend(_, _)
\* _.extend(object, results): a key of results that object holds keeps its place
\* and takes the new value, a new key is added at the end.
Extend(object, results) ==
  IF results = <<>> THEN object
  ELSE LET r == Head(results)
           i == IndexOfName(object, r.name)
       IN  Extend(IF i = 0 THEN Append(object, r) ELSE [object EXCEPT ![i] = r],
                  Tail(results))

\* The state init() works on, as a record.
InitState ==
  [plugins |-> plugins, backends |-> backends, initPc |-> initPc,
   initLog |-> initLog, hookLog |-> <<>>]

\* The task of stage k calls its loader.
StartLoader(st, k) ==
  [st EXCEPT !.initPc = Loaders[k],
             !.initLog = Append(@, Event("start", Loaders[k]))]

\* player.plugins = plugins; player.plugins = _.extend(player.plugins, results);
\* player.backends = backends; player.backends = _.extend(player.backends, results)
Merge(st, k, results) ==
  LET merged ==
        CASE k = 1 -> [st EXCEPT !.plugins = results]
          [] k = 2 -> [st EXCEPT !.plugins = Extend(st.plugins, results)]
          [] k = 3 -> [st EXCEPT !.backends = results]
          [] k = 4 -> [st EXCEPT !.backends = Extend(st.backends, results)]
  IN  [merged EXCEPT !.initLog = Append(@, Event("merge", Loaders[k]))]

\* player.callHooks(hook) inside init()
FireHook(st, hook) ==
  [st EXCEPT !.hookLog = Append(@, HookCall(st.plugins, hook, <<>>)),
             !.initLog = Append(@, Event("hook", hook))]

\* async.series after the callback() of task k: the next task, or the final
\* callback, which fires onReady.
SeriesNext(st, k) ==
  IF k < Len(Loaders) THEN StartLoader(st, k + 1)
  ELSE FireHook([st EXCEPT !.initPc = "ready"], "onReady")

\* A stage callback that fires its hook before it merges the loader's result.
LoaderCallbackHookFirst(st, k, results) ==
  SeriesNext(Merge(FireHook(st, StageHooks[k]), k, results), k)

\* The callback the task of stage k hands to its loader: merge, fire the stage's
\* hook, callback().
LoaderCallback(st, k, results) ==
  SeriesNext(FireHook(Merge(st, k, results), StageHooks[k]), k)

\* init()
PlayerInit ==
  /\ initPc = "idle"
  /\ LET st == StartLoader(InitState, 1)
     IN  /\ initPc' = st.initPc
         /\ initLog' = st.initLog
         /\ hookLog' = st.hookLog
  /\ lastOp' = Op("init", <<>>, "none")
  /\ UNCHANGED <<plugins, backends, volume, aggVars, playVars>>

\* The loader of stage k calls back with its results.
LoaderDone(k, results) ==
  /\ initPc = Loaders[k]
  /\ LET st == LoaderCallback(InitState, k, results)
     IN  /\ plugins' = st.plugins
         /\ backends' = st.backends
         /\ initPc' = st.initPc
         /\ initLog' = st.initLog
         /\ hookLog' = st.hookLog
  /\ lastOp' = Op("loaderDone", <<Loaders[k]>>, "none")
  /\ UNCHANGED <<volume, aggVars, playVars>>

\* A plugin whose handlers of the five lifecycle hooks are all of one kind.
LifecycleHooks == {StageHooks[k] : k \in 1..4} \cup {"onReady"}
LifecyclePlugin(name, kind) ==
  [name |-> name,
   hooks |-> [n \in HookNames |-> IF n \in LifecycleHooks THEN kind ELSE NoHandler],
   top |-> {}]
LifecycleKinds == {NoHandler, "retUndefined", "retError"}

PluginsNamed(name) == {LifecyclePlugin(name, kind) : kind \in LifecycleKinds}

\* A backend descriptor: its name and whether it has the getPlaylists capability.
BackendsNamed(name) == {[name |-> name, getPlaylists |-> g] : g \in BOOLEAN}

\* The descriptor maps a loader hands to its callback: zero, one or two
\* descriptors, the first from set D1 and the second from set D2.
ResultsOver(D1, D2) ==
  {<<>>} \cup {<<d>> : d \in D1} \cup {<<d>> : d \in D2}
         \cup {<<d1, d2>> : d1 \in D1, d2 \in D2}

\* What the loader of stage k may hand back; the external loaders of stages 2
\* and 4 may hand back a name the builtin loader gave already.
LoaderResults(k) ==
  CASE k = 1 -> ResultsOver(PluginsNamed("p1"), PluginsNamed("p2"))
    [] k = 2 -> ResultsOver(PluginsNamed("p3"), PluginsNamed("p2"))
    [] k = 3 -> ResultsOver(BackendsNamed("b1"), BackendsNamed("b2"))
    [] k = 4 -> ResultsOver(BackendsNamed("b3"), BackendsNamed("b2"))

InitInit ==
  /\ plugins = <<>>
  /\ backends = <<>>
  /\ volume = NewVolume(0)
  /\ hookLog = <<>>
  /\ lastOp = Op("new", <<>>, "none")
  /\ initPc = "idle"
  /\ initLog = <<>>
  /\ AggIdle
  /\ PlayIdle

NextInit ==
  \/ PlayerInit
  \/ \E k \in 1..4 : \E results \in LoaderResults(k) : LoaderDone(k, results)

SpecInit == InitInit /\ [][NextInit]_vars

\* The only order in which init() starts loaders, merges results and fires hooks.
ExpectedInitLog ==
  <<Event("start", "loadBuiltinPlugins"), Event("merge", "loadBuiltinPlugins"),
    Event("hook", "onBuiltinPluginsInitialized"),
    Event("start", "loadPlugins"), Event("merge", "loadPlugins"),
    Event("hook", "onPluginsInitialized"),
    Event("start", "loadBuiltinBackends"), Event("merge", "loadBuiltinBackends"),
    Event("hook", "onBuiltinBackendsInitialized"),
    Event("start", "loadBackends"), Event("merge", "loadBackends"),
    Event("hook", "onBackendsInitialized"),
    Event("hook", "onReady")>>

IsPrefix(s, t) == Len(s) <= Len(t) /\ \A i \in 1..Len(s) : s[i] = t[i]

\* The names of the plugins of `plugs` whose handler a callHooks(hook) invokes.
InvokedBy(plugs, hook) ==
  LET ex == Exposing(plugs, hook)
  IN  [i \in 1..LastInvoked(plugs, hook, <<>>) |-> ex[i].name]

\* The loader whose callback is awaited is the one started last, and only after
\* the hook of stage 4 is the pipeline ready.
PendingLoaderIsLastStarted ==
  CASE Len(initLog) = 0  -> initPc = "idle"
    [] Len(initLog) = 13 -> initPc = "ready"
    [] OTHER -> /\ initLog[Len(initLog)].ev = "start"
                /\ initPc = initLog[Len(initLog)].what

\* C3: init() runs the four stages in the fixed order; each stage's hook fires
\* after the stage's result was merged into the player (its handlers are those of
\* the merged plugin map) and before the next loader is started; onReady fires
\* only after all four stages have merged, so never while a loader has not
\* called back.
C3_InitOrder ==
  /\ [](IsPrefix(initLog, ExpectedInitLog) /\ PendingLoaderIsLastStarted)
  /\ [][lastOp'.op = "loaderDone" =>
          /\ \E k \in 1..4 :
               /\ lastOp'.args = <<Loaders[k]>>
               /\ hookLog'[1].hook = StageHooks[k]
          /\ \A n \in 1..Len(hookLog') :
               hookLog'[n].invoked = InvokedBy(plugins', hookLog'[n].hook)
          /\ (hookLog'[Len(hookLog')].hook = "onReady") <=> (initPc' = "ready")]_vars

\* init() has run to the end: onReady fired, with a handler, on three plugins
\* and three backends merged from the four loaders.
C3_Witness ==
  /\ initPc = "ready"
  /\ initLog = ExpectedInitLog
  /\ Len(plugins) = 3
  /\ Len(backends) = 3
  /\ Len(hookLog) = 2
  /\ hookLog[2].hook = "onReady"
  /\ hookLog[2].invoked # <<>>

-----------------------------------------------------------------------------
(* The search / playlist aggregator. *)

BackendName(i) == CASE i = 1 -> "b1" [] i = 2 -> "b2" [] i = 3 -> "b3" [] OTHER -> "b4"

\* A join that fires on the first report.
AllReportedOnFirst(cnt, backs) == cnt >= 1

\* resultCnt >= Object.keys(this.backends).length
AllReported(cnt, backs) == cnt >= Len(backs)

\* The closure of one searchBackends or getPlaylists call, as a record.
AggState ==
  [resultCnt |-> resultCnt, allResults |-> allResults, doneCalls |-> doneCalls,
   pending |-> aggPending, hookLog |-> <<>>]

\* An entry allResults[name]: the songs object of a search result (its songIds),
\* or what a backend's getPlaylists handed over.
Entry(name, songs, playlists) == [name |-> name, songs |-> songs, playlists |-> playlists]

\* allResults[name] = entry
SetEntry(all, entry) == {e \in all : e.name # entry.name} \cup {entry}

\* allResults[name].songs[songId] = song
AddSong(all, name, songId) ==
  {IF e.name = name THEN [e EXCEPT !.songs = @ \cup {songId}] ELSE e : e \in all}

\* "got results from all services?": callback(allResults) if so.
JoinCheck(st) ==
  IF AllReported(st.resultCnt, backends)
  THEN [st EXCEPT !.doneCalls = Append(@, st.allResults)]
  ELSE st

\* A filter that keeps every song, whatever the hook returns.
FilterSongsKeepAll(st, name, songs) ==
  [st EXCEPT !.allResults = {IF e.name = name
                             THEN [e EXCEPT !.songs = {songs[i] : i \in 1..Len(songs)}]
                             ELSE e : e \in @}]

RECURSIVE FilterSongs(_, _, _)
\* _.each(tempSongs, song => ...): a song is added again unless the
\* preAddSearchResult hook returns a truthy value for it.
FilterSongs(st, name, songs) ==
  IF songs = <<>> THEN st
  ELSE LET call == HookCall(plugins, "preAddSearchResult", <<Head(songs)>>)
           logged == [st EXCEPT !.hookLog = Append(@, call)]
       IN  FilterSongs(IF Truthy(call.err) THEN logged
                       ELSE [logged EXCEPT !.allResults = AddSong(@, name, Head(songs))],
                       name, Tail(songs))

\* The success handler searchBackends hands to backend.search.
SearchSuccessHandler(st, name, songs) ==
  LET counted == [st EXCEPT !.resultCnt = @ + 1,
                            !.pending = @ \ {name},
                            !.allResults = SetEntry(@, Entry(name, {}, Undefined))]
  IN  JoinCheck(FilterSongs(counted, name, songs))

\* The error handler searchBackends hands to backend.search.
SearchErrorHandler(st, name) ==
  JoinCheck([st EXCEPT !.resultCnt = @ + 1, !.pending = @ \ {name}])

\* The callback getPlaylists hands to backend.getPlaylists.
PlaylistsHandler(st, name, results) ==
  JoinCheck([st EXCEPT !.resultCnt = @ + 1,
                       !.pending = @ \ {name},
                       !.allResults = SetEntry(@, Entry(name, {}, results))])

RECURSIVE GetPlaylistsEach(_, _)
\* _.each(this.backends, ...) of getPlaylists from the i-th backend on: a backend
\* without getPlaylists is counted at once, the others are asked.
GetPlaylistsEach(st, i) ==
  IF i > Len(backends) THEN st
  ELSE IF ~backends[i].getPlaylists
       THEN GetPlaylistsEach(JoinCheck([st EXCEPT !.resultCnt = @ + 1]), i + 1)
       ELSE GetPlaylistsEach([st EXCEPT !.pending = @ \cup {backends[i].name}], i + 1)

\* The closure of a new call.
NewAggState ==
  [resultCnt |-> 0, allResults |-> {}, doneCalls |-> <<>>, pending |-> {}, hookLog |-> <<>>]

SetAgg(st) ==
  /\ resultCnt' = st.resultCnt
  /\ allResults' = st.allResults
  /\ doneCalls' = st.doneCalls
  /\ aggPending' = st.pending
  /\ hookLog' = st.hookLog

\* searchBackends(query, callback); a call is made when no earlier call waits
\* for a backend.
SearchBackends(query) ==
  /\ aggPending = {}
  /\ aggCall' = "search"
  /\ SetAgg([NewAggState EXCEPT !.pending = {backends[i].name : i \in 1..Len(backends)}])
  /\ lastOp' = Op("searchBackends", <<query>>, "none")
  /\ UNCHANGED <<plugins, backends, volume, initVars, playVars>>

\* Backend `name` reports the songs it found (results.songs, by songId).
SearchSuccess(name, songs) ==
  /\ aggCall = "search"
  /\ name \in aggPending
  /\ SetAgg(SearchSuccessHandler(AggState, name, songs))
  /\ lastOp' = Op("searchSuccess", <<name, songs>>, "none")
  /\ UNCHANGED <<plugins, backends, volume, initVars, aggCall, playVars>>

\* Backend `name` reports an error.
SearchError(name) ==
  /\ aggCall = "search"
  /\ name \in aggPending
  /\ SetAgg(SearchErrorHandler(AggState, name))
  /\ lastOp' = Op("searchError", <<name>>, "none")
  /\ UNCHANGED <<plugins, backends, volume, initVars, aggCall, playVars>>

\* getPlaylists(callback)
GetPlaylists ==
  /\ aggPending = {}
  /\ aggCall' = "playlists"
  /\ SetAgg(GetPlaylistsEach(NewAggState, 1))
  /\ lastOp' = Op("getPlaylists", <<>>, "none")
  /\ UNCHANGED <<plugins, backends, volume, initVars, playVars>>

\* Backend `name` calls the callback of its getPlaylists, with its playlists or,
\* on an error, with none.
PlaylistsReport(name, results) ==
  /\ aggCall = "playlists"
  /\ name \in aggPending
  /\ SetAgg(PlaylistsHandler(AggState, name, results))
  /\ lastOp' = Op("playlistsReport", <<name>>, "none")
  /\ UNCHANGED <<plugins, backends, volume, initVars, aggCall, playVars>>

\* A plugin with the given handler of preAddSearchResult and no other.
SearchPlugin(name, kind) ==
  [name |-> name,
   hooks |-> [n \in HookNames |-> IF n = "preAddSearchResult" THEN kind ELSE NoHandler],
   top |-> {}]

\* The plugin maps of this specification.
SearchPluginMaps ==
  {<<>>, <<SearchPlugin("p1", "retUndefined")>>, <<SearchPlugin("p1", "rejectS1")>>,
   <<SearchPlugin("p1", "retError")>>,
   <<SearchPlugin("p1", "retUndefined"), SearchPlugin("p2", "rejectS1")>>}

\* The backend maps with n backends: the i-th registered one is BackendName(i).
BackendMapsOfLen(n) ==
  {[i \in 1..n |-> [name |-> BackendName(i), getPlaylists |-> g[i]]] :
     g \in [1..n -> BOOLEAN]}

BackendMaps == UNION {BackendMapsOfLen(n) : n \in 0..MaxBackends}

\* What a backend's search may report as results.songs, by songId.
SearchResults == {<<>>, <<"s1">>, <<"s2">>, <<"s1", "s2">>}

\* What a backend's getPlaylists may hand over.
PlaylistResults == {"playlists", Undefined}

InitAgg ==
  /\ plugins \in SearchPluginMaps
  /\ backends \in BackendMaps
  /\ volume = NewVolume(0)
  /\ hookLog = <<>>
  /\ lastOp = Op("new", <<>>, "none")
  /\ initPc = "idle"
  /\ initLog = <<>>
  /\ AggIdle
  /\ PlayIdle

NextAgg ==
  \/ SearchBackends("query")
  \/ \E i \in 1..Len(backends) : \E songs \in SearchResults :
       SearchSuccess(backends[i].name, songs)
  \/ \E i \in 1..Len(backends) : SearchError(backends[i].name)
  \/ GetPlaylists
  \/ \E i \in 1..Len(backends) : \E results \in PlaylistResults :
       PlaylistsReport(backends[i].name, results)

SpecAgg == InitAgg /\ [][NextAgg]_vars

\* The backends that have reported to the call under way: those it asked that
\* no longer pend and, in getPlaylists, those without the capability.
Registered == {backends[i].name : i \in 1..Len(backends)}
Reported == Registered \ aggPending

\* C1: for a non-empty set of registered backends, the completion callback of
\* searchBackends / getPlaylists is invoked exactly once, when every backend has
\* reported, and never before.
C1_JoinExactlyOnce ==
  (aggCall # "none" /\ backends # <<>>) =>
    /\ Len(doneCalls) <= 1
    /\ resultCnt = Cardinality(Reported)
    /\ (Len(doneCalls) = 1) <=> (Reported = Registered)

\* A search in which three backends have reported, the last one by an error,
\* and the callback was invoked.
C1_Witness ==
  /\ aggCall = "search"
  /\ Len(backends) = 3
  /\ lastOp.op = "searchError"
  /\ Len(doneCalls) = 1
  /\ Cardinality(doneCalls[1]) = 2

\* A getPlaylists call on backends of which one lacks the capability, after the
\* others have reported.
C1_WitnessPlaylists ==
  /\ aggCall = "playlists"
  /\ \E i \in 1..Len(backends) : ~backends[i].getPlaylists
  /\ lastOp.op = "playlistsReport"
  /\ Len(doneCalls) = 1

\* The preAddSearchResult hook returns a truthy value for `song`.
Vetoed(song) == Truthy(CallHooks(plugins, "preAddSearchResult", <<song>>).err)

\* The entries of `all` under backend `name`.
EntriesOf(all, name) == {e \in all : e.name = name}

\* C18: when a backend reports the songs it found, the result holds under its
\* name exactly the reported songs the preAddSearchResult hook did not veto, by
\* songId, and the entries of the other backends stay; a backend that reports
\* an error gets no entry; the callback is handed the result so built.
C18_SearchFiltering ==
  [][/\ lastOp'.op = "searchSuccess" =>
         LET name == lastOp'.args[1]
             songs == lastOp'.args[2]
         IN  /\ \E e \in allResults' :
                  /\ EntriesOf(allResults', name) = {e}
                  /\ e.songs = {songs[i] : i \in {j \in 1..Len(songs) : ~Vetoed(songs[j])}}
             /\ allResults' \ EntriesOf(allResults', name) = allResults
     /\ lastOp'.op = "searchError" =>
         /\ EntriesOf(allResults', lastOp'.args[1]) = {}
         /\ allResults' = allResults
     /\ (aggCall' = "search" /\ Len(doneCalls') > Len(doneCalls)) =>
         doneCalls'[Len(doneCalls')] = allResults']_vars

\* A search whose callback was invoked after one backend failed and another
\* reported two songs of which the hook vetoed one.
C18_Witness ==
  /\ aggCall = "search"
  /\ lastOp.op = "searchSuccess"
  /\ lastOp.args[2] = <<"s1", "s2">>
  /\ Len(doneCalls) = 1
  /\ Cardinality(doneCalls[1]) < Len(backends)
  /\ \E e \in doneCalls[1] : e.name = lastOp.args[1] /\ e.songs = {"s2"}

\* C20: once every backend asked by a searchBackends or getPlaylists call has
\* reported, the callback of the call has been invoked, whatever the set of
\* registered backends, the empty one included.
C20_JoinCompletes ==
  (aggCall # "none" /\ aggPending = {}) => Len(doneCalls) >= 1

-----------------------------------------------------------------------------
(* The queue, the songs and the watchdog timers. *)

\* The player, its songs and its timers, as a record the methods work on;
\* calls and threw record what a call did and the exception that ended it, and
\* held the timer handles each song has held during the call.  songsPreparing
\* is the backends' registry of the fetches in flight: those of the songs that
\* are not prepared and have a handler waiting.
PlayState ==
  [queue |-> queue, nowPlaying |-> nowPlaying, play |-> play, repeat |-> repeat,
   playback |-> playback, prepared |-> prepared, cancelPrepare |-> cancelPrepare,
   prepareTimeout |-> prepareTimeout, timers |-> timers, handlers |-> handlers,
   deferred |-> deferred, seriesDefers |-> seriesDefers,
   calls |-> <<>>, hookLog |-> <<>>, threw |-> "none",
   held |-> [s \in Songs |-> {}],
   songsPreparing |-> {s \in Songs : ~prepared[s] /\ handlers[s] # {}}]

Throw(st, exception) == [st EXCEPT !.threw = exception]
Threw(st) == st.threw # "none"
LogX(st, fn, arg, note) ==
  [st EXCEPT !.calls = Append(@, [fn |-> fn, arg |-> arg, note |-> note])]
Log(st, fn, arg) == LogX(st, fn, arg, "")

\* this.callHooks(hook, argv), whose return value the caller drops.
PlayHook(st, hook, argv) ==
  [st EXCEPT !.hookLog = Append(@, HookCall(plugins, hook, argv))]

\* queue.songs[i]
SongAt(q, i) == IF i + 1 \in 1..Len(q) THEN q[i + 1] ELSE Undefined

\* queue.findSongIndex(at): the index of the song whose uuid is `at`, or -1.
FindSongIndex(q, at) ==
  IF \E i \in 1..Len(q) : Uuid(q[i]) = at
  THEN (CHOOSE i \in 1..Len(q) : Uuid(q[i]) = at /\ \A j \in 1..(i - 1) : Uuid(q[j]) # at) - 1
  ELSE -1

\* queue.findSong(at): the song whose uuid is `at`, or null.
FindSong(q, at) ==
  IF FindSongIndex(q, at) = -1 THEN Null ELSE SongAt(q, FindSongIndex(q, at))

\* queue.uuidAtIndex(i)
UuidAtIndex(q, i) == IF Truthy(SongAt(q, i)) THEN Uuid(SongAt(q, i)) ELSE Undefined

\* queue.getLength()
GetLength(q) == Len(q)

\* this.queue.playbackStart: a property nothing assigns.
QueuePlaybackStart == Undefined

\* The handle setTimeout returns for a new timer of `song`: one that no armed
\* timer of the song has and that the song does not hold and has not held
\* during this call.
FreshTimer(st, song) ==
  LET used == {t.id : t \in {u \in st.timers : u.song = song}}
                \cup {st.prepareTimeout[song]} \cup st.held[song]
  IN  CHOOSE id \in 1..(Cardinality(used) + 1) :
        id \notin used /\ \A j \in 1..(id - 1) : j \in used

\* clearTimeout(handle) of a handle `song` holds
ClearTimeout(st, song, handle) ==
  [st EXCEPT !.timers = {t \in @ : ~(t.song = song /\ t.id = handle)}]

\* A setPrepareTimeout that does not cancel the timer the song holds.
SetPrepareTimeoutNoClear(st, song) ==
  LET id == FreshTimer(st, song)
  IN  [st EXCEPT !.timers = @ \cup {[id |-> id, song |-> song]},
                 !.prepareTimeout[song] = id,
                 !.held[song] = @ \cup {st.prepareTimeout[song]}]

\* setPrepareTimeout(song)
SetPrepareTimeout(st, song) ==
  LET cleared == IF st.prepareTimeout[song] # 0
                 THEN ClearTimeout(st, song, st.prepareTimeout[song])
                 ELSE st
      id == FreshTimer(cleared, song)
  IN  [cleared EXCEPT !.timers = @ \cup {[id |-> id, song |-> song]},
                      !.prepareTimeout[song] = id,
                      !.held[song] = @ \cup {st.prepareTimeout[song]}]

\* clearPrepareTimeout(song)
ClearPrepareTimeout(st, song) ==
  [ClearTimeout(st, song, st.prepareTimeout[song]) EXCEPT
     !.prepareTimeout[song] = 0,
     !.held[song] = @ \cup {st.prepareTimeout[song]}]

\* A progress handler given to song.prepare: the callback of startPlayback
\* (kind "start", with its position) or the one of prepareSong (kind "prep",
\* with the task of prepareSongs whose callback it calls: 1 or 2).
StartHandlerOf(song, position) ==
  [kind |-> "start", song |-> song, position |-> position, step |-> 0]
PrepHandlerOf(song, step) ==
  [kind |-> "prep", song |-> song, position |-> 0, step |-> step]

\* song.prepare(handler): the handler joins those awaiting the song's fetch; a
\* song that is not prepared gets its cancelPrepare capability.
SongPrepare(st, song, handler) ==
  LET joined == [Log(st, "prepare", song) EXCEPT !.handlers[song] = @ \cup {handler}]
  IN  IF st.prepared[song] THEN joined
      ELSE [joined EXCEPT !.cancelPrepare[song] = TRUE,
                          !.songsPreparing = @ \cup {song}]

\* The times of the clock, in milliseconds: a song is started at time
\* ClockStart, and new Date().getTime() returns that time or a later one.
ClockStart == 1
Clock == ClockStart..MaxClock

\* song.playbackStarted(position), called at time ClockStart.
PlaybackStarted(st, song, position) ==
  [Log(st, "playbackStarted", song) EXCEPT
     !.playback[song] = [startTime |-> ClockStart, startPos |-> position]]

\* song.cancelPrepare(reason): the fetch is given up, its handlers are called no
\* more and the capability is gone.
CancelPrepare(st, song, reason) ==
  [LogX(st, "cancelPrepare", song, reason) EXCEPT !.cancelPrepare[song] = FALSE,
                                                  !.handlers[song] = {},
                                                  !.songsPreparing = @ \ {song}]

-----------------------------------------------------------------------------
(* The playback state machine and the preparation pipeline. *)

\* stopPlayback(pause); now is what new Date().getTime() returns.
StopPlayback(st, pause, now) ==
  LET stopped == [LogX(st, "stopPlayback", "", IF pause THEN "pause" ELSE "stop")
                    EXCEPT !.play = FALSE]
      np == stopped.nowPlaying
  IN  IF np \notin Songs THEN Throw(stopped, "TypeError")
      ELSE LET pos == stopped.playback[np].startPos
                        + (now - stopped.playback[np].startTime)
           IN  [stopped EXCEPT !.playback[np] =
                  [startTime |-> 0, startPos |-> IF pause THEN pos ELSE 0]]

\* startPlayback(position)
StartPlayback(st, position) ==
  LET called == Log(st, "startPlayback", "")
      adopted == IF ~Truthy(called.nowPlaying)
                 THEN [called EXCEPT !.nowPlaying = SongAt(called.queue, 0)]
                 ELSE called
  IN  IF ~Truthy(adopted.nowPlaying) THEN Throw(adopted, "QueueEmpty")
      ELSE SongPrepare(adopted, adopted.nowPlaying,
                       StartHandlerOf(adopted.nowPlaying, position))

\* The callback startPlayback gives to nowPlaying.prepare.
StartHandler(st, h, err) ==
  IF err THEN Throw(st, "PrepareError")
  ELSE IF st.nowPlaying \notin Songs THEN Throw(st, "TypeError")
  ELSE [PlaybackStarted(st, st.nowPlaying,
                        IF h.position # 0 THEN h.position
                        ELSE st.playback[st.nowPlaying].startPos)
          EXCEPT !.play = TRUE]

\* changeSong(uuid)
ChangeSong(st, uuid) ==
  LET found == [Log(st, "changeSong", uuid) EXCEPT
                  !.nowPlaying = FindSong(st.queue, uuid)]
      stopped == IF ~Truthy(found.nowPlaying)
                 THEN StopPlayback(found, FALSE, ClockStart)
                 ELSE found
  IN  IF Threw(stopped) THEN stopped ELSE StartPlayback(stopped, 0)

\* The test of prepareSong and prepareProgCallback: playback of this song is
\* to be started.
PlaybackPending(st, song) ==
  /\ st.play
  /\ Truthy(st.nowPlaying)
  /\ Uuid(st.nowPlaying) = Uuid(song)
  /\ ~Truthy(QueuePlaybackStart)

RECURSIVE PrepareSong(_, _, _)
RECURSIVE SecondTask(_, _)
RECURSIVE SeriesCallback(_, _, _, _, _)

\* The second task of prepareSongs, whose first task prepared currentSong: it
\* looks up the next song by queue.findSongIndex(currentSong), handing it the
\* song and not its uuid, and prepares that song or bails out.
SecondTask(st, currentSong) ==
  LET nextSong == SongAt(st.queue, FindSongIndex(st.queue, currentSong) + 1)
  IN  IF Truthy(nextSong) THEN PrepareSong(st, nextSong, 2) ELSE st

\* The callback prepareSong(song, callback) was given.  For step 1 it is the
\* callback of the first task of prepareSongs, whose currentSong is `song`:
\* unless it is called with an error async.series goes on to the second task.
\* When the first task called back before it returned (sync) the async of the
\* installation decides how: async 1.x hands the second task to setImmediate,
\* async 0.9, 2.x and 3.x run it at once.  A later callback runs it at once in
\* every version.  For step 2 it is the callback of the second task, which
\* ends the series.
SeriesCallback(st, step, song, err, sync) ==
  LET called == LogX(st, "callback", song, IF err THEN "error" ELSE "")
  IN  IF step = 1 /\ ~err
      THEN IF sync /\ called.seriesDefers
           THEN [called EXCEPT !.deferred = Append(@, song)]
           ELSE SecondTask(called, song)
      ELSE called

\* prepareSong(song, callback)
PrepareSong(st, song, step) ==
  IF ~Truthy(song) THEN Throw(st, "NoSong")
  ELSE LET called == Log(st, "prepareSong", song)
       IN  IF called.prepared[song]
           THEN LET started == IF PlaybackPending(called, song)
                               THEN StartPlayback(called, 0)
                               ELSE called
                IN  IF Threw(started) THEN started
                    ELSE SeriesCallback(started, step, song, FALSE, TRUE)
           ELSE SetPrepareTimeout(
                  SongPrepare(called, song, PrepHandlerOf(song, step)), song)

\* prepareSongs(): the first task of its async.series.
PrepareSongs(st) ==
  LET called == Log(st, "prepareSongs", "")
  IN  IF Truthy(called.nowPlaying)
      THEN PrepareSong(called, called.nowPlaying, 1)
      ELSE IF GetLength(called.queue) # 0
           THEN PrepareSong(called, SongAt(called.queue, 0), 1)
           ELSE called

\* A songEnd that goes back to the first song whether repeat is set or not.
SongEndAlwaysRepeat(st) ==
  LET np == st.nowPlaying
      npIndex == IF Truthy(np) THEN FindSongIndex(st.queue, Uuid(np)) ELSE -1
      called == Log(st, "songEnd", "")
  IN  IF np \notin Songs THEN Throw(called, "TypeError")
      ELSE LET hooked == PlayHook(called, "onSongEnd", <<np>>)
               nextSong == SongAt(hooked.queue, npIndex + 1)
               changed == IF Truthy(nextSong) THEN ChangeSong(hooked, Uuid(nextSong))
                          ELSE ChangeSong(hooked, UuidAtIndex(hooked.queue, 0))
           IN  IF Threw(changed) THEN changed ELSE PrepareSongs(changed)

\* songEnd()
SongEnd(st) ==
  LET np == st.nowPlaying
      npIndex == IF Truthy(np) THEN FindSongIndex(st.queue, Uuid(np)) ELSE -1
      called == Log(st, "songEnd", "")
  IN  IF np \notin Songs THEN Throw(called, "TypeError")
      ELSE LET hooked == PlayHook(called, "onSongEnd", <<np>>)
               nextSong == SongAt(hooked.queue, npIndex + 1)
               changed == IF Truthy(nextSong) THEN ChangeSong(hooked, Uuid(nextSong))
                          ELSE IF hooked.repeat
                               THEN ChangeSong(hooked, UuidAtIndex(hooked.queue, 0))
                               ELSE hooked
           IN  IF Threw(changed) THEN changed ELSE PrepareSongs(changed)

\* prepareProgCallback(song, bytesWritten, done)
PrepareProgCallback(st, song, bytesWritten, done) ==
  LET started == IF PlaybackPending(st, song) /\ bytesWritten # 0
                 THEN StartPlayback(st, 0)
                 ELSE st
      progressed == PlayHook(started, "onPrepareProgress", <<song, bytesWritten, done>>)
      marked == [PlayHook(progressed, "onSongPrepared", <<song>>)
                   EXCEPT !.cancelPrepare[song] = FALSE]
  IN  IF Threw(started) THEN started
      ELSE IF done
           THEN IF song \notin marked.songsPreparing THEN Throw(marked, "TypeError")
                ELSE ClearPrepareTimeout(
                       [marked EXCEPT !.songsPreparing = @ \ {song}], song)
           ELSE SetPrepareTimeout(progressed, song)

\* The progress handler prepareSong gives to song.prepare.
PrepHandler(st, h, err, chunk, done) ==
  IF err THEN SeriesCallback(st, h.step, h.song, TRUE, FALSE)
  ELSE LET progressed == IF chunk # 0
                         THEN PrepareProgCallback(st, h.song, chunk, done)
                         ELSE st
       IN  IF Threw(progressed) \/ ~done THEN progressed
           ELSE SeriesCallback(ClearPrepareTimeout(progressed, h.song),
                               h.step, h.song, FALSE, FALSE)

\* prepareError(song, err)
PrepareError(st, song, err) ==
  PlayHook(Log(st, "prepareError", song), "onSongPrepareError", <<song, err>>)

\* prepareErrCallback(song, err, callback): this.songsPreparing is a property
\* nothing assigns, so the last statement throws.
PrepareErrCallback(st, song, err) ==
  LET dropped == [Log(st, "prepareErrCallback", song) EXCEPT !.cancelPrepare[song] = FALSE]
      cleared == ClearPrepareTimeout(dropped, song)
      called == LogX(cleared, "callback", song, "error")
  IN  Throw(PrepareError(called, song, err), "TypeError")

\* One handler called with (err, chunk, done).
CallHandler(st, h, err, chunk, done) ==
  IF h.kind = "start" THEN StartHandler(st, h, err)
  ELSE PrepHandler(st, h, err, chunk, done)

RECURSIVE CallHandlers(_, _, _, _, _)
\* The fetch calls the handlers hs one after the other; an exception of one
\* ends the event.
CallHandlers(st, hs, err, chunk, done) ==
  IF hs = <<>> \/ Threw(st) THEN st
  ELSE CallHandlers(CallHandler(st, Head(hs), err, chunk, done), Tail(hs), err, chunk, done)

\* The callback of the watchdog timer of setPrepareTimeout.
WatchdogCallback(st, song) ==
  IF ~st.cancelPrepare[song] THEN Throw(st, "TypeError")
  ELSE [CancelPrepare(st, song, "prepare timeout") EXCEPT !.prepareTimeout[song] = 0]

-----------------------------------------------------------------------------
(* The player's operations and the events of its environment. *)

\* The state a call leaves, with the record of the call; a run has at most
\* MaxSteps calls and events.
SetPlay(st, op) ==
  /\ steps < MaxSteps
  /\ steps' = steps + 1
  /\ queue' = st.queue
  /\ nowPlaying' = st.nowPlaying
  /\ play' = st.play
  /\ repeat' = st.repeat
  /\ playback' = st.playback
  /\ prepared' = st.prepared
  /\ cancelPrepare' = st.cancelPrepare
  /\ prepareTimeout' = st.prepareTimeout
  /\ timers' = st.timers
  /\ handlers' = st.handlers
  /\ deferred' = st.deferred
  /\ seriesDefers' = seriesDefers
  /\ calls' = st.calls
  /\ hookLog' = st.hookLog
  /\ lastOp' = op
  /\ UNCHANGED <<plugins, backends, volume, initVars, aggVars>>

\* startPlayback(position)
StartPlaybackOp(position) ==
  LET st == StartPlayback(PlayState, position)
  IN  SetPlay(st, Op("startPlayback", <<ToString(position)>>, st.threw))

\* stopPlayback(pause), called at time now.
StopPlaybackOp(pause, now) ==
  LET st == StopPlayback(PlayState, pause, now)
  IN  SetPlay(st, Op("stopPlayback", <<ToString(pause), ToString(now)>>, st.threw))

\* changeSong(uuid)
ChangeSongOp(uuid) ==
  LET st == ChangeSong(PlayState, uuid)
  IN  SetPlay(st, Op("changeSong", <<uuid>>, st.threw))

\* songEnd()
SongEndOp ==
  LET st == SongEnd(PlayState)
  IN  SetPlay(st, Op("songEnd", <<>>, st.threw))

\* prepareSongs()
PrepareSongsOp ==
  LET st == PrepareSongs(PlayState)
  IN  SetPlay(st, Op("prepareSongs", <<>>, st.threw))

\* prepareError(song, err)
PrepareErrorOp(song) ==
  LET st == PrepareError(PlayState, song, "error")
  IN  SetPlay(st, Op("prepareError", <<song>>, st.threw))

\* prepareErrCallback(song, err, callback)
PrepareErrCallbackOp(song) ==
  LET st == PrepareErrCallback(PlayState, song, "error")
  IN  SetPlay(st, Op("prepareErrCallback", <<song>>, st.threw))

\* The event loop runs the second task async.series handed to setImmediate.
RunDeferred ==
  /\ deferred # <<>>
  /\ LET st == SecondTask([PlayState EXCEPT !.deferred = Tail(@)], Head(deferred))
     IN  SetPlay(st, Op("secondTask", <<Head(deferred)>>, st.threw))

\* The orders in which the handlers of a set may be called.
Orders(hs) ==
  {o \in [1..Cardinality(hs) -> hs] : \A i, j \in 1..Cardinality(hs) : o[i] = o[j] => i = j}

\* The fetch of `song` reports progress to the song's handlers, called in the
\* order hs: a chunk of `chunk` bytes, and whether the song is complete.  A
\* prepared song is reported complete at once.
FetchProgress(song, hs, chunk, done) ==
  /\ handlers[song] # {}
  /\ hs \in Orders(handlers[song])
  /\ chunk # 0 \/ done
  /\ prepared[song] => (done /\ chunk = 0)
  /\ LET st == CallHandlers([PlayState EXCEPT !.prepared[song] = @ \/ done,
                                              !.handlers[song] = IF done THEN {} ELSE @],
                            hs, FALSE, chunk, done)
     IN  SetPlay(st, Op("fetchProgress", <<song, chunk, done>>, st.threw))

\* The fetch of `song` reports an error to the song's handlers, called in the
\* order hs.
FetchError(song, hs) ==
  /\ handlers[song] # {}
  /\ hs \in Orders(handlers[song])
  /\ ~prepared[song]
  /\ LET st == CallHandlers([PlayState EXCEPT !.handlers[song] = {}],
                            hs, TRUE, 0, FALSE)
     IN  SetPlay(st, Op("fetchError", <<song>>, st.threw))

\* The watchdog timer t fires.
WatchdogFire(t) ==
  /\ t \in timers
  /\ LET st == WatchdogCallback([PlayState EXCEPT !.timers = @ \ {t}], t.song)
     IN  SetPlay(st, Op("watchdog", <<t.song>>, st.threw))

\* A plugin that has a handler of every hook the playback fires.
PlayPlugin ==
  [name |-> "p1",
   hooks |-> [n \in HookNames |->
                IF n \in {"onSongEnd", "onPrepareProgress", "onSongPrepared",
                          "onSongPrepareError"}
                THEN "retUndefined" ELSE NoHandler],
   top |-> {}]

\* The queue of the first n songs.
QueueOf(n) == [i \in 1..n |-> SongName(i)]

\* The positions startPlayback is called with: none (0) and one millisecond.
Positions == {0, 1}

\* The uuids changeSong is called with: those of the songs and one of no song.
UuidInputs == {Uuid(s) : s \in Songs} \cup {"u0"}

InitPlay ==
  /\ plugins = <<PlayPlugin>>
  /\ backends = <<>>
  /\ volume = NewVolume(0)
  /\ hookLog = <<>>
  /\ lastOp = Op("new", <<>>, "none")
  /\ initPc = "idle"
  /\ initLog = <<>>
  /\ AggIdle
  /\ queue \in {QueueOf(n) : n \in 0..MaxQueue}
  /\ nowPlaying = Null
  /\ play = FALSE
  /\ repeat \in BOOLEAN
  /\ playback = [s \in Songs |-> NotStarted]
  /\ prepared = [s \in Songs |-> FALSE]
  /\ cancelPrepare = [s \in Songs |-> FALSE]
  /\ prepareTimeout = [s \in Songs |-> 0]
  /\ timers = {}
  /\ handlers = [s \in Songs |-> {}]
  /\ deferred = <<>>
  /\ seriesDefers \in BOOLEAN
  /\ steps = 0
  /\ calls = <<>>

NextPlay ==
  \/ \E position \in Positions : StartPlaybackOp(position)
  \/ \E now \in Clock : StopPlaybackOp(TRUE, now)
  \/ StopPlaybackOp(FALSE, ClockStart)
  \/ \E uuid \in UuidInputs : ChangeSongOp(uuid)
  \/ SongEndOp
  \/ PrepareSongsOp
  \/ RunDeferred
  \/ \E s \in Songs : PrepareErrorOp(s)
  \/ \E s \in Songs : PrepareErrCallbackOp(s)
  \/ \E s \in Songs : \E hs \in Orders(handlers[s]) :
       \E chunk \in {0, 1}, done \in BOOLEAN : FetchProgress(s, hs, chunk, done)
  \/ \E s \in Songs : \E hs \in Orders(handlers[s]) : FetchError(s, hs)
  \/ \E t \in timers : WatchdogFire(t)

SpecPlay == InitPlay /\ [][NextPlay]_vars

-----------------------------------------------------------------------------
(* The watchdog, the end of a song and the calls that find no song. *)

\* The watchdog timers armed for `song`.
TimersOf(ts, song) == {t \in ts : t.song = song}

\* The calls of function fn the last operation made.
CallsOf(log, fn) == {i \in 1..Len(log) : log[i].fn = fn}

InQueue(q, song) == \E i \in 1..Len(q) : q[i] = song

\* At most one watchdog is armed per song, and it is the one the song holds.
OneWatchdogPerSong ==
  \A s \in Songs :
    /\ Cardinality(TimersOf(timers, s)) <= 1
    /\ \A t \in TimersOf(timers, s) : t.id = prepareTimeout[s]

\* A watchdog that fires on a song that has its cancelPrepare is armed no more,
\* calls the song's cancelPrepare once, with the timeout reason, and clears the
\* song's handle.
WatchdogFires ==
  (lastOp'.op = "watchdog" /\ cancelPrepare[lastOp'.args[1]]) =>
    LET s == lastOp'.args[1]
    IN  /\ TimersOf(timers, s) # {}
        /\ TimersOf(timers', s) = {}
        /\ lastOp'.threw = "none"
        /\ calls' = <<[fn |-> "cancelPrepare", arg |-> s, note |-> "prepare timeout"]>>
        /\ prepareTimeout'[s] = 0

\* A chunk with bytes that reaches the progress handler of prepareSong before
\* the watchdog fires cancels the armed watchdog and arms a new one.
WatchdogRearmed ==
  (/\ lastOp'.op = "fetchProgress"
   /\ lastOp'.args[2] # 0
   /\ ~lastOp'.args[3]
   /\ lastOp'.threw = "none"
   /\ \E h \in handlers[lastOp'.args[1]] : h.kind = "prep")
  => LET s == lastOp'.args[1]
     IN  /\ TimersOf(timers, s) \cap TimersOf(timers', s) = {}
         /\ Cardinality(TimersOf(timers', s)) = 1
         /\ \A t \in TimersOf(timers', s) : t.id = prepareTimeout'[s]

AfterSong(q, song, rep) ==
  LET i == CHOOSE j \in 1..Len(q) : q[j] = song
  IN  IF i < Len(q) THEN q[i + 1] ELSE IF rep THEN q[1] ELSE Null

\* C5: songEnd() on the last song of the queue leaves nowPlaying as it is and
\* performs no changeSong when repeat is false, and makes the first song of the
\* queue the now-playing one when repeat is true; when a next song exists it
\* becomes the now-playing song whatever repeat is.
C5_SongEnd ==
  [][(lastOp'.op = "songEnd" /\ InQueue(queue, nowPlaying)) =>
       LET next == AfterSong(queue, nowPlaying, repeat)
       IN  /\ lastOp'.threw = "none"
           /\ next = Null => /\ nowPlaying' = nowPlaying
                             /\ CallsOf(calls', "changeSong") = {}
           /\ next # Null => /\ nowPlaying' = next
                             /\ \E i \in CallsOf(calls', "changeSong") :
                                  calls'[i].arg = Uuid(next)]_vars

\* songEnd() on the last of two songs, with repeat set, has changed to the first.
C5_Witness ==
  /\ lastOp.op = "songEnd"
  /\ Len(queue) = 2
  /\ repeat
  /\ nowPlaying = queue[1]
  /\ \E i \in CallsOf(calls, "changeSong") : calls[i].arg = Uuid(queue[1])

\* C6: changeSong(uuid) with a uuid that is not in the queue leaves nowPlaying
\* null and play false, does not fail and starts no other song.
C6_ChangeSongMissing ==
  (/\ lastOp.op = "changeSong"
   /\ \A i \in 1..Len(queue) : Uuid(queue[i]) # lastOp.args[1])
  => /\ lastOp.threw = "none"
     /\ nowPlaying = Null
     /\ ~play
     /\ CallsOf(calls, "startPlayback") = {}
     /\ CallsOf(calls, "prepare") = {}

\* C7: startPlayback() with an empty queue and no now-playing song fails with
\* the queue-empty error and leaves the player as it was: nowPlaying still null,
\* play unchanged and no preparation started.
C7_StartPlaybackEmptyQueue ==
  [][(lastOp'.op = "startPlayback" /\ queue = <<>> /\ nowPlaying = Null) =>
       /\ lastOp'.threw = "QueueEmpty"
       /\ nowPlaying' = Null
       /\ play' = play
       /\ CallsOf(calls', "prepare") = {}
       /\ UNCHANGED <<queue, repeat, playback, prepared, cancelPrepare,
                      prepareTimeout, timers, handlers>>]_vars

\* C8: nowPlaying is null or a song of the queue, in every state the calls of
\* startPlayback, stopPlayback, changeSong, songEnd and prepareSongs lead to.
C8_NowPlayingInQueue ==
  nowPlaying = Null \/ InQueue(queue, nowPlaying)

\* The song the first task of prepareSongs() prepares.
FirstPrepared(q, np) == IF Truthy(np) THEN np ELSE SongAt(q, 0)

\* C9: prepareSong(song, done) on a prepared song, as the first task of
\* prepareSongs() calls it, calls done() at once, does not call song.prepare
\* itself and arms no watchdog; it calls startPlayback exactly when play is
\* true, song is the now-playing song and its playback has not started.
C9_PrepareSongPrepared ==
  [][(/\ lastOp'.op = "prepareSongs"
      /\ Truthy(FirstPrepared(queue, nowPlaying))
      /\ prepared[FirstPrepared(queue, nowPlaying)]) =>
       LET song == FirstPrepared(queue, nowPlaying)
           pending == play /\ nowPlaying = song /\ playback[song].startTime = 0
           done == [fn |-> "callback", arg |-> song, note |-> ""]
       IN  /\ calls'[2] = [fn |-> "prepareSong", arg |-> song, note |-> ""]
           /\ TimersOf(timers', song) = TimersOf(timers, song)
           /\ prepareTimeout'[song] = prepareTimeout[song]
           /\ IF pending
              THEN /\ calls'[3].fn = "startPlayback"
                   /\ calls'[4] = [fn |-> "prepare", arg |-> song, note |-> ""]
                   /\ calls'[5] = done
              ELSE calls'[3] = done]_vars

-----------------------------------------------------------------------------
(* The ends of a preparation: error, completion and cancellation. *)

\* The preparation of `song` is in flight: prepareSong's progress handler awaits
\* the fetch of a song that is not prepared.
PrepareInFlight(song) ==
  ~prepared[song] /\ \E h \in handlers[song] : h.kind = "prep"

\* The hooks of name `hook` the last operation fired for `song`.
HooksFor(log, hook, song) ==
  {i \in 1..Len(log) : log[i].hook = hook /\ log[i].argv[1] = song}

\* C12: when the fetch of a song reports an error to the progress handler of
\* prepareSong, done(error) is called, no watchdog of the song stays armed, the
\* song's cancelPrepare capability is dropped and onSongPrepareError is fired
\* with the song.
C12_PrepareError ==
  [][(/\ lastOp'.op = "fetchError"
      /\ PrepareInFlight(lastOp'.args[1])
      /\ lastOp'.threw = "none") =>
       LET s == lastOp'.args[1]
       IN  /\ \E i \in CallsOf(calls', "callback") :
                calls'[i].arg = s /\ calls'[i].note = "error"
           /\ TimersOf(timers', s) = {}
           /\ prepareTimeout'[s] = 0
           /\ ~cancelPrepare'[s]
           /\ HooksFor(hookLog', "onSongPrepareError", s) # {}]_vars

\* C13: when the fetch reports a song complete to the progress handler of
\* prepareSong, with a chunk or with an empty one, onSongPrepared has fired, the
\* cancelPrepare capability is dropped, done() was called and no watchdog of the
\* song is armed.
C13_PrepareComplete ==
  [][(/\ lastOp'.op = "fetchProgress"
      /\ lastOp'.args[3]
      /\ PrepareInFlight(lastOp'.args[1])
      /\ lastOp'.threw = "none") =>
       LET s == lastOp'.args[1]
       IN  /\ HooksFor(hookLog', "onSongPrepared", s) # {}
           /\ ~cancelPrepare'[s]
           /\ \E i \in CallsOf(calls', "callback") :
                calls'[i].arg = s /\ calls'[i].note = ""
           /\ TimersOf(timers', s) = {}]_vars

\* C14: the watchdog calls a song's cancelPrepare only while the preparation is
\* in flight: never after it has completed, failed or been cancelled.
C14_CancelWhileInFlight ==
  [][\A i \in CallsOf(calls', "cancelPrepare") :
       /\ ~prepared[calls'[i].arg]
       /\ handlers[calls'[i].arg] # {}]_vars

\* C15: songEnd() on the last song of the queue with repeat off leaves play
\* false and starts playback of no song, the look-ahead preparation included.
C15_SongEndStops ==
  [][(/\ lastOp'.op = "songEnd"
      /\ InQueue(queue, nowPlaying)
      /\ AfterSong(queue, nowPlaying, repeat) = Null) =>
       /\ ~play'
       /\ CallsOf(calls', "startPlayback") = {}
       /\ CallsOf(calls', "playbackStarted") = {}]_vars

-----------------------------------------------------------------------------
(* The order of prepareSongs. *)

\* The songs the last operation called prepareSong on, in the order of the calls.
PrepareSongTargets(log) ==
  LET sel == SelectSeq(log, LAMBDA c : c.fn = "prepareSong")
  IN  [i \in 1..Len(sel) |-> sel[i].arg]

\* C16: prepareSongs() prepares the now-playing song, or the first queued one,
\* first; the second preparation starts only once the first has completed
\* without error (at once when the fetch completes it; when the song was
\* prepared already, at once or from the event loop as the installed async
\* has it) and is that of the song right after the first
\* in the queue; with an empty queue, with the first song last in the queue or
\* after a failed first preparation nothing more is prepared.
C16_PrepareSongsOrder ==
  [][LET first == FirstPrepared(queue, nowPlaying)
         s == lastOp'.args[1]
     IN  /\ (/\ lastOp'.op = "prepareSongs"
             /\ lastOp'.threw = "none"
             /\ ~Truthy(first)) =>
              /\ PrepareSongTargets(calls') = <<>>
              /\ deferred' = deferred
         /\ (/\ lastOp'.op = "prepareSongs"
             /\ lastOp'.threw = "none"
             /\ InQueue(queue, first)) =>
              /\ PrepareSongTargets(calls') =
                   IF /\ prepared[first]
                      /\ ~seriesDefers
                      /\ AfterSong(queue, first, FALSE) # Null
                   THEN <<first, AfterSong(queue, first, FALSE)>>
                   ELSE <<first>>
              /\ deferred' = IF prepared[first] /\ seriesDefers
                             THEN Append(deferred, first)
                             ELSE deferred
         /\ (/\ lastOp'.op = "secondTask"
             /\ lastOp'.threw = "none"
             /\ InQueue(queue, s)) =>
              PrepareSongTargets(calls') =
                IF AfterSong(queue, s, FALSE) # Null
                THEN <<AfterSong(queue, s, FALSE)>>
                ELSE <<>>
         /\ (/\ lastOp'.op = "fetchProgress"
             /\ lastOp'.threw = "none"
             /\ PrepHandlerOf(s, 1) \in handlers[s]) =>
              PrepareSongTargets(calls') =
                IF lastOp'.args[3] /\ AfterSong(queue, s, FALSE) # Null
                THEN <<AfterSong(queue, s, FALSE)>>
                ELSE <<>>
         /\ lastOp'.op = "fetchError" =>
              /\ PrepareSongTargets(calls') = <<>>
              /\ deferred' = deferred]_vars

-----------------------------------------------------------------------------
(* Chunks of the now-playing song. *)

\* The last operation was a chunk of `song` that did not complete it.
ChunkOf(op, song) ==
  /\ op.op = "fetchProgress"
  /\ op.threw = "none"
  /\ op.args[1] = song
  /\ op.args[2] # 0
  /\ ~op.args[3]

\* C17: during one preparation of the now-playing song with play true every
\* chunk fires onPrepareProgress and re-arms the watchdog, and the progress
\* handler calls startPlayback at most once: a chunk that follows one on which
\* it was called does not call it again.
C17_StartOnFirstChunk ==
  [][\A s \in Songs :
       (ChunkOf(lastOp', s) /\ PrepareInFlight(s)) =>
         /\ HooksFor(hookLog', "onPrepareProgress", s) # {}
         /\ \E t \in TimersOf(timers', s) : t.id = prepareTimeout'[s]
         /\ (ChunkOf(lastOp, s) /\ CallsOf(calls, "startPlayback") # {}) =>
              CallsOf(calls', "startPlayback") = {}]_vars

-----------------------------------------------------------------------------
(* The song a completed fetch marks as started. *)

\* C19: when the fetch of a song reports progress or completion, playbackStarted
\* is called on that song only: a fetch that startPlayback began for an earlier
\* now-playing song does not mark the song changeSong selected since.
C19_StartedSongIsFetched ==
  [][lastOp'.op = "fetchProgress" =>
       \A i \in CallsOf(calls', "playbackStarted") :
         calls'[i].arg = lastOp'.args[1]]_vars

=============================================================================
